---- MODULE Spec2Model ----
(***************************************************************************)
(* A model of taffy's layout dispatcher (src/compute/mod.rs):              *)
(* compute_layout, compute_node_layout, the five-slot cache, the hidden    *)
(* subtree routine and the rounding pass.                                  *)
(*                                                                         *)
(* Lengths are fixed-point: an integer v stands for v / Scale pixels.      *)
(* Option<f32> is a record [some, val]; None is [some |-> FALSE, val |-> 0]*)
(***************************************************************************)
EXTENDS Integers, Sequences, FiniteSets, TLC

VARIABLES children, style, measure, layout, cache, steps, last

vars == <<children, style, measure, layout, cache, steps, last>>

-----------------------------------------------------------------------------
(* Bounds                                                                  *)

\* Sub-pixel resolution: one pixel is Scale units.
Scale == 5

\* Number of top-level calls (compute_layout / perform_hidden_layout) in a run.
MaxSteps == 3

\* Number of compute_node_layout queries made on a tree in a run.
MaxQueries == 2

\* crate::data::CACHE_SIZE: number of cache slots per node.
CACHE_SIZE == 5

\* Width and height in pixels of a character of the test suite's text.
H_WIDTH == 10
H_HEIGHT == 10

Nodes == 1..4

\* A handle the tree accessor does not know (stale or detached).
StaleNode == 0

-----------------------------------------------------------------------------
(* Geometry, options, available space                                      *)

None == [some |-> FALSE, val |-> 0]
Some(v) == [some |-> TRUE, val |-> v]

unwrap_or(o, d) == IF o.some THEN o.val ELSE d

Size(w, h) == [width |-> w, height |-> h]
Point(px, py) == [x |-> px, y |-> py]

SizeZERO == Size(0, 0)
SizeNONE == Size(None, None)
PointZERO == Point(0, 0)

MinContent == [kind |-> "MinContent", val |-> 0]
MaxContent == [kind |-> "MaxContent", val |-> 0]
Definite(v) == [kind |-> "Definite", val |-> v]

SizeMAX_CONTENT == Size(MaxContent, MaxContent)

\* AvailableSpace::into_option: Definite(v) -> Some(v), otherwise None.
into_option(a) == IF a.kind = "Definite" THEN Some(a.val) ELSE None

\* Size<AvailableSpace>::into_options
into_options(s) == Size(into_option(s.width), into_option(s.height))

\* AvailableSpace::is_roughly_equal: the content constraints match only
\* themselves; definite values match when they differ by less than 1e-4
\* pixels, which for fixed-point values of resolution 1/Scale is equality.
is_roughly_equal(a, b) ==
    /\ a.kind = b.kind
    /\ (a.kind = "Definite" => a.val = b.val)

\* sys::round (f32::round): nearest whole pixel, halves away from zero.
round(v) ==
    IF v >= 0
    THEN ((2 * v + Scale) \div (2 * Scale)) * Scale
    ELSE -(((2 * (-v) + Scale) \div (2 * Scale)) * Scale)

\* Layout { order, size, location }
Layout(o, s, l) == [order |-> o, size |-> s, location |-> l]

\* Layout::with_order: zero size at the origin.
with_order(o) == Layout(o, SizeZERO, PointZERO)

\* Layout::new
LayoutNew == with_order(0)

-----------------------------------------------------------------------------
(* Tree accessor (LayoutTree)                                              *)

child_count(node) == Len(children[node])
child(node, index) == children[node][index + 1]
is_childless(node) == child_count(node) = 0

\* The node whose child list holds n, or StaleNode for a tree root.
ParentOf(n) ==
    IF \E p \in Nodes : \E i \in 1..Len(children[p]) : children[p][i] = n
    THEN CHOOSE p \in Nodes : \E i \in 1..Len(children[p]) : children[p][i] = n
    ELSE StaleNode

Roots == {n \in Nodes : ParentOf(n) = StaleNode}

\* The nodes compute_layout is called on: the roots of the trees, and the
\* containers inside them (a pass over a subtree alone).
CallRoots == Roots \cup {c \in Nodes : children[c] # <<>>}

RECURSIVE Descendants(_)
\* Strict descendants of node along child links.
Descendants(node) ==
    LET kids == {children[node][i] : i \in 1..Len(children[node])}
    IN kids \cup UNION {Descendants(k) : k \in kids}

Subtree(node) == {node} \cup Descendants(node)

\* Index of n in its parent's child list (0 for a root).
IndexInParent(n) ==
    IF ParentOf(n) = StaleNode THEN 0
    ELSE (CHOOSE i \in 1..Len(children[ParentOf(n)]) : children[ParentOf(n)][i] = n) - 1

-----------------------------------------------------------------------------
(* Cache                                                                   *)

\* Option<Cache>::None. The field pass is a history tag: the number of the
\* top-level call during which the entry was written.
NoEntry ==
    [some |-> FALSE, known_dimensions |-> SizeNONE, available_space |-> SizeMAX_CONTENT,
     run_mode |-> "PerformLayout", cached_size |-> SizeZERO, pass |-> 0]

Entry(kd, av, rm, sz, p) ==
    [some |-> TRUE, known_dimensions |-> kd, available_space |-> av,
     run_mode |-> rm, cached_size |-> sz, pass |-> p]

EmptyCache == [i \in 0..(CACHE_SIZE - 1) |-> NoEntry]

BoolToInt(b) == IF b THEN 1 ELSE 0

\* Mutant of compute_cache_slot: every query shares slot 0.
compute_cache_slot_zero(known_dimensions, available_space) == 0

\* Mutant of compute_cache_slot: with one dimension known, the constraint of
\* the width is looked at whichever dimension is known.
compute_cache_slot_width_only(known_dimensions, available_space) ==
    IF known_dimensions.width.some /\ known_dimensions.height.some THEN 0
    ELSE IF known_dimensions.width.some \/ known_dimensions.height.some
         THEN 1 + BoolToInt(available_space.width = MinContent)
         ELSE 3 + BoolToInt(available_space.width = MinContent)

compute_cache_slot(known_dimensions, available_space) ==
    LET has_known_width == known_dimensions.width.some
        has_known_height == known_dimensions.height.some
        other_dim_available_space ==
            IF has_known_width THEN available_space.height ELSE available_space.width
    IN IF has_known_width /\ has_known_height THEN 0
       ELSE IF has_known_width \/ has_known_height
            THEN 1 + BoolToInt(other_dim_available_space = MinContent)
            ELSE 3 + BoolToInt(available_space.width = MinContent)

\* The hit predicate of compute_from_cache for one populated entry.
EntryMatches(entry, known_dimensions, available_space, sizing_mode) ==
    /\ \/ known_dimensions.width = entry.known_dimensions.width
       \/ known_dimensions.width = Some(entry.cached_size.width)
    /\ \/ known_dimensions.height = entry.known_dimensions.height
       \/ known_dimensions.height = Some(entry.cached_size.height)
    /\ \/ known_dimensions.width.some
       \/ is_roughly_equal(entry.available_space.width, available_space.width)
       \/ /\ sizing_mode = "ContentSize"
          /\ available_space.width.kind = "Definite"
          /\ available_space.width.val >= entry.cached_size.width
    /\ \/ known_dimensions.height.some
       \/ is_roughly_equal(entry.available_space.height, available_space.height)
       \/ /\ sizing_mode = "ContentSize"
          /\ available_space.height.kind = "Definite"
          /\ available_space.height.val >= entry.cached_size.height

Miss == [some |-> FALSE, size |-> SizeZERO, idx |-> 0, pass |-> 0]
Hit(entry, idx) == [some |-> TRUE, size |-> entry.cached_size, idx |-> idx, pass |-> entry.pass]

RECURSIVE compute_from_cache_loop(_, _, _, _, _, _)
\* The loop `for idx in 0..CACHE_SIZE` of compute_from_cache, from idx on.
compute_from_cache_loop(entries, idx, known_dimensions, available_space, run_mode, sizing_mode) ==
    IF idx >= CACHE_SIZE THEN Miss
    ELSE LET entry == entries[idx]
         IN IF ~entry.some
            THEN compute_from_cache_loop(entries, idx + 1, known_dimensions,
                                         available_space, run_mode, sizing_mode)
            ELSE IF entry.run_mode = "ComputeSize" /\ run_mode = "PerformLayout"
                 THEN Miss
                 ELSE IF EntryMatches(entry, known_dimensions, available_space, sizing_mode)
                      THEN Hit(entry, idx)
                      ELSE compute_from_cache_loop(entries, idx + 1, known_dimensions,
                                                   available_space, run_mode, sizing_mode)

RECURSIVE first_match(_, _, _, _, _)
first_match(entries, idx, known_dimensions, available_space, sizing_mode) ==
    IF idx >= CACHE_SIZE THEN Miss
    ELSE IF entries[idx].some
            /\ EntryMatches(entries[idx], known_dimensions, available_space, sizing_mode)
         THEN Hit(entries[idx], idx)
         ELSE first_match(entries, idx + 1, known_dimensions, available_space, sizing_mode)

\* Mutant of compute_from_cache: the run mode of an entry is not looked at.
compute_from_cache_any_mode(t, node, known_dimensions, available_space, run_mode, sizing_mode) ==
    first_match(t.cache[node], 0, known_dimensions, available_space, sizing_mode)

\* Mutant of compute_from_cache: the cache never answers.
compute_from_cache_never(t, node, known_dimensions, available_space, run_mode, sizing_mode) ==
    Miss

compute_from_cache(t, node, known_dimensions, available_space, run_mode, sizing_mode) ==
    compute_from_cache_loop(t.cache[node], 0, known_dimensions, available_space,
                            run_mode, sizing_mode)

-----------------------------------------------------------------------------
(* History of one top-level call                                           *)

\* One step of the dispatcher, recorded in call order:
\*   "query" compute_node_layout entered, "hit" answered from the cache,
\*   "algo"  a layout algorithm chosen (slot carries no meaning, algo names it),
\*   "store" result written to a cache slot.
Event(ev, node, algo, kd, av, ps, rm, sm, slot, sz, p) ==
    [ev |-> ev, node |-> node, algo |-> algo, known_dimensions |-> kd,
     available_space |-> av, parent_size |-> ps, run_mode |-> rm, sizing_mode |-> sm,
     slot |-> slot, size |-> sz, pass |-> p]

\* The tree as a layout algorithm sees it: layout records, caches, the
\* history of the current call, and the calls and returns of the two walks
\* (perform_hidden_layout with its inner function, and round_layout).
Tree(l, c, tr, p) ==
    [layout |-> l, cache |-> c, trace |-> tr, pass |-> p, walk |-> <<>>]

Log(t, e) == [t EXCEPT !.trace = Append(@, e)]

\* fn was called on node / has returned from node.
Enter(t, fn, node) ==
    [t EXCEPT !.walk = Append(@, [ev |-> "enter", fn |-> fn, node |-> node])]
Return(t, fn, node) ==
    [t EXCEPT !.walk = Append(@, [ev |-> "return", fn |-> fn, node |-> node])]

Result(t, sz) == [t |-> t, size |-> sz]

-----------------------------------------------------------------------------
(* Style resolution helpers                                                *)

\* Option::or
or(a, b) == IF a.some THEN a ELSE b

Max(a, b) == IF a >= b THEN a ELSE b
Min(a, b) == IF a <= b THEN a ELSE b

\* maybe_clamp: clamp v between optional bounds; the minimum wins.
maybe_clamp(v, lo, hi) ==
    LET capped == IF hi.some THEN Min(v, hi.val) ELSE v
    IN IF lo.some THEN Max(capped, lo.val) ELSE capped

-----------------------------------------------------------------------------
(* Measure function of the generated tests                                 *)

\* A node without a measure function.
NoMeasure == [some |-> FALSE, text |-> <<>>, writing_mode |-> "Horizontal"]

\* A node measured as text: text is the sequence of the lengths of the pieces
\* the content falls into when split at zero-width spaces.
Text(text, writing_mode) == [some |-> TRUE, text |-> text, writing_mode |-> writing_mode]

RECURSIVE MaxOf(_)
\* lines.iter().map(len).max().unwrap_or(0)
MaxOf(lines) == IF lines = <<>> THEN 0 ELSE Max(Head(lines), MaxOf(Tail(lines)))

RECURSIVE SumOf(_)
\* lines.iter().map(len).sum()
SumOf(lines) == IF lines = <<>> THEN 0 ELSE Head(lines) + SumOf(Tail(lines))

RECURSIVE line_count(_, _, _, _)
\* The loop over lines of the block size: pieces are put on the current line
\* until the next one does not fit in inline_line_length characters.
line_count(lines, inline_line_length, count, current_line_length) ==
    IF lines = <<>> THEN count
    ELSE IF current_line_length + Head(lines) > inline_line_length
         THEN line_count(Tail(lines), inline_line_length,
                         IF current_line_length > 0 THEN count + 1 ELSE count,
                         Head(lines))
         ELSE line_count(Tail(lines), inline_line_length, count,
                         current_line_length + Head(lines))

\* measure_standard_text: lengths in units of 1/Scale pixel.
measure_standard_text(known_dimensions, available_space, text_content, writing_mode) ==
    IF known_dimensions.width.some /\ known_dimensions.height.some
    THEN Size(known_dimensions.width.val, known_dimensions.height.val)
    ELSE LET horizontal == writing_mode = "Horizontal"
             known_inline == IF horizontal THEN known_dimensions.width
                             ELSE known_dimensions.height
             known_block == IF horizontal THEN known_dimensions.height
                            ELSE known_dimensions.width
             available_inline == IF horizontal THEN available_space.width
                                 ELSE available_space.height
             min_line_length == MaxOf(text_content)
             max_line_length == SumOf(text_content)
             inline_size ==
                 IF known_inline.some THEN known_inline.val
                 ELSE IF available_inline.kind = "MinContent"
                      THEN min_line_length * H_WIDTH * Scale
                      ELSE IF available_inline.kind = "MaxContent"
                           THEN max_line_length * H_WIDTH * Scale
                           ELSE Max(Min(available_inline.val,
                                        max_line_length * H_WIDTH * Scale),
                                    min_line_length * H_WIDTH * Scale)
             block_size ==
                 IF known_block.some THEN known_block.val
                 ELSE line_count(text_content, inline_size \div (H_WIDTH * Scale), 1, 0)
                          * H_HEIGHT * Scale
         IN IF horizontal THEN Size(inline_size, block_size)
            ELSE Size(block_size, inline_size)

-----------------------------------------------------------------------------
(* Leaf algorithm                                                          *)

\* leaf::compute: each axis is the known dimension, else the style size
\* (InherentSize only), else what the node's measure function returns for the
\* dimensions decided so far, else 0, clamped by min_size / max_size
\* (InherentSize only). Writes nothing to the tree.
leaf_compute(t, node, known_dimensions, parent_size, available_space, run_mode, sizing_mode) ==
    LET st == style[node]
        inherent == sizing_mode = "InherentSize"
        node_size ==
            IF inherent
            THEN Size(or(known_dimensions.width, st.size.width),
                      or(known_dimensions.height, st.size.height))
            ELSE known_dimensions
        lo == IF inherent THEN st.min_size ELSE SizeNONE
        hi == IF inherent THEN st.max_size ELSE SizeNONE
        measured ==
            IF measure[node].some
            THEN measure_standard_text(node_size, available_space, measure[node].text,
                                       measure[node].writing_mode)
            ELSE SizeZERO
    IN Result(t, Size(maybe_clamp(unwrap_or(node_size.width, measured.width),
                                  lo.width, hi.width),
                      maybe_clamp(unwrap_or(node_size.height, measured.height),
                                  lo.height, hi.height)))

-----------------------------------------------------------------------------
(* Hidden subtree                                                          *)

SetLayout(t, node, l) == [t EXCEPT !.layout[node] = l]

RECURSIVE perform_hidden_layout_inner(_, _, _)
RECURSIVE hidden_children_loop(_, _, _)

\* The loop `for order in 0..tree.child_count(node)` of both hidden routines.
hidden_children_loop(t, node, order) ==
    IF order >= child_count(node) THEN t
    ELSE hidden_children_loop(perform_hidden_layout_inner(t, child(node, order), order),
                              node, order + 1)

perform_hidden_layout_inner(t, node, order) ==
    Return(hidden_children_loop(SetLayout(Enter(t, "perform_hidden_layout_inner", node),
                                          node, with_order(order)),
                                node, 0),
           "perform_hidden_layout_inner", node)

\* Mutant of perform_hidden_layout: direct children only, no recursion.
RECURSIVE hidden_children_shallow(_, _, _)
hidden_children_shallow(t, node, order) ==
    IF order >= child_count(node) THEN t
    ELSE hidden_children_shallow(
             Return(SetLayout(Enter(t, "perform_hidden_layout_inner", child(node, order)),
                              child(node, order), with_order(order)),
                    "perform_hidden_layout_inner", child(node, order)),
             node, order + 1)

perform_hidden_layout_shallow(t, node) ==
    Result(Return(hidden_children_shallow(Enter(t, "perform_hidden_layout", node), node, 0),
                  "perform_hidden_layout", node),
           SizeZERO)

perform_hidden_layout(t, node) ==
    Result(Return(hidden_children_loop(Enter(t, "perform_hidden_layout", node), node, 0),
                  "perform_hidden_layout", node),
           SizeZERO)

-----------------------------------------------------------------------------
(* Flexbox                                                                 *)
(*                                                                         *)
(* flexbox::compute for a single-line row container (flex_direction Row,   *)
(* NoWrap, no flexible lengths, start alignment, no margin, padding,       *)
(* border or gap). Intermediate results are handed on as parameters; where *)
(* a step needs the tree an earlier step left, the earlier step is written *)
(* as the one element of a set the later step is mapped over, so that the  *)
(* steps are evaluated in program order.                                   *)

RECURSIVE compute_node_layout(_, _, _, _, _, _, _)
RECURSIVE flex_measure_loop(_, _, _, _, _, _)
RECURSIVE flex_place_loop(_, _, _, _, _, _)

\* Step 2: the container's own size on each axis, when a known dimension or
\* its style size (clamped by min_size / max_size) decides it.
flex_node_size(node, known_dimensions) ==
    LET st == style[node]
    IN Size(or(known_dimensions.width,
               IF st.size.width.some
               THEN Some(maybe_clamp(st.size.width.val, st.min_size.width, st.max_size.width))
               ELSE None),
            or(known_dimensions.height,
               IF st.size.height.some
               THEN Some(maybe_clamp(st.size.height.val, st.min_size.height, st.max_size.height))
               ELSE None))

\* Step 3: the space offered to the children: the container's size where it
\* is decided, else what the container itself was offered.
flex_child_available_space(node_size, available_space) ==
    Size(IF node_size.width.some THEN Definite(node_size.width.val)
         ELSE available_space.width,
         IF node_size.height.some THEN Definite(node_size.height.val)
         ELSE available_space.height)

\* The probed width r.size.width clamped by the item's min/max width.
flex_clamp_main(r, item) ==
    Result(r.t, Size(maybe_clamp(r.size.width, style[item].min_size.width,
                                 style[item].max_size.width), 0))

\* Steps 3-5: the main size of an item is its style width, else the width a
\* ComputeSize probe with nothing known returns.
flex_item_main(t, item, node_inner_size, child_available_space) ==
    IF style[item].size.width.some
    THEN flex_clamp_main(Result(t, Size(style[item].size.width.val, 0)), item)
    ELSE flex_clamp_main(compute_node_layout(t, item, SizeNONE, node_inner_size,
                                             child_available_space,
                                             "ComputeSize", "ContentSize"), item)

\* The item's size: main size w, and the probed height clamped.
flex_clamp_cross(r, w, item) ==
    Result(r.t, Size(w, maybe_clamp(r.size.height, style[item].min_size.height,
                                    style[item].max_size.height)))

\* Step 6: the cross size of an item is its style height, else the height a
\* ComputeSize probe with the main size known returns; main is the result of
\* flex_item_main.
flex_item_cross(main, item, node_inner_size, child_available_space) ==
    IF style[item].size.height.some
    THEN flex_clamp_cross(Result(main.t, Size(0, style[item].size.height.val)),
                          main.size.width, item)
    ELSE flex_clamp_cross(compute_node_layout(main.t, item,
                                              Size(Some(main.size.width), None),
                                              node_inner_size, child_available_space,
                                              "ComputeSize", "ContentSize"),
                          main.size.width, item)

flex_item_size(t, item, node_inner_size, child_available_space) ==
    CHOOSE r \in {flex_item_cross(main, item, node_inner_size, child_available_space) :
                      main \in {flex_item_main(t, item, node_inner_size,
                                               child_available_space)}} : TRUE

\* The loop goes on with the tree the item's probes left and its size.
flex_measure_next(r, node, order, node_inner_size, child_available_space, sizes) ==
    flex_measure_loop(r.t, node, order + 1, node_inner_size, child_available_space,
                      Append(sizes, r.size))

\* Sizes of the children of node from index order on, appended to sizes; a
\* display: None child is no flex item and counts as (0,0).
flex_measure_loop(t, node, order, node_inner_size, child_available_space, sizes) ==
    IF order >= child_count(node) THEN [t |-> t, sizes |-> sizes]
    ELSE IF style[child(node, order)].display = "None"
         THEN flex_measure_loop(t, node, order + 1, node_inner_size,
                                child_available_space, Append(sizes, SizeZERO))
         ELSE CHOOSE m \in {flex_measure_next(r, node, order, node_inner_size,
                                              child_available_space, sizes) :
                               r \in {flex_item_size(t, child(node, order), node_inner_size,
                                                     child_available_space)}} : TRUE

\* The child at index order gets the size r its PerformLayout call returned,
\* at main-axis offset x; the next child starts where it ends.
flex_place_item(r, node, order, x, sizes, container_size) ==
    flex_place_loop(SetLayout(r.t, child(node, order), Layout(order, r.size, Point(x, 0))),
                    node, order + 1, x + r.size.width, sizes, container_size)

\* Step 13 from index order on, x being the main-axis offset reached: each
\* in-flow child is laid out with its resolved size known; a display: None
\* child gets the zero layout and is sent through the dispatcher so that its
\* own subtree is hidden.
flex_place_loop(t, node, order, x, sizes, container_size) ==
    IF order >= child_count(node) THEN t
    ELSE IF style[child(node, order)].display = "None"
         THEN CHOOSE placed \in
                  {flex_place_loop(r.t, node, order + 1, x, sizes, container_size) :
                       r \in {compute_node_layout(
                                  SetLayout(t, child(node, order), with_order(order)),
                                  child(node, order), SizeNONE, SizeNONE,
                                  SizeMAX_CONTENT, "PerformLayout", "InherentSize")}} : TRUE
         ELSE CHOOSE placed \in
                  {flex_place_item(r, node, order, x, sizes, container_size) :
                       r \in {compute_node_layout(
                                  t, child(node, order),
                                  Size(Some(sizes[order + 1].width),
                                       Some(sizes[order + 1].height)),
                                  Size(Some(container_size.width),
                                       Some(container_size.height)),
                                  Size(Definite(sizes[order + 1].width),
                                       Definite(sizes[order + 1].height)),
                                  "PerformLayout", "ContentSize")}} : TRUE

RECURSIVE SumWidths(_)
SumWidths(sizes) ==
    IF sizes = <<>> THEN 0 ELSE Head(sizes).width + SumWidths(Tail(sizes))

RECURSIVE MaxHeight(_)
MaxHeight(sizes) ==
    IF sizes = <<>> THEN 0 ELSE Max(Head(sizes).height, MaxHeight(Tail(sizes)))

\* Step 7 and the container's size: as wide as the sum of its items and as
\* high as the highest (clamped), unless node_size decides the axis.
flex_container_size(node, node_size, sizes) ==
    Size(IF node_size.width.some THEN node_size.width.val
         ELSE maybe_clamp(SumWidths(sizes), style[node].min_size.width,
                          style[node].max_size.width),
         IF node_size.height.some THEN node_size.height.val
         ELSE maybe_clamp(MaxHeight(sizes), style[node].min_size.height,
                          style[node].max_size.height))

\* Child layouts are written only when run_mode is PerformLayout.
flexbox_emit(t, node, run_mode, sizes, container_size) ==
    IF run_mode = "ComputeSize" THEN Result(t, container_size)
    ELSE Result(flex_place_loop(t, node, 0, 0, sizes, container_size), container_size)

\* m is the result of flex_measure_loop over all children.
flexbox_measured(m, node, node_size, run_mode) ==
    flexbox_emit(m.t, node, run_mode, m.sizes, flex_container_size(node, node_size, m.sizes))

flexbox_sized(t, node, node_size, available_space, run_mode) ==
    CHOOSE r \in {flexbox_measured(m, node, node_size, run_mode) :
                      m \in {flex_measure_loop(t, node, 0, node_size,
                                               flex_child_available_space(node_size,
                                                                          available_space),
                                               <<>>)}} : TRUE

flexbox_compute(t, node, known_dimensions, parent_size, available_space, run_mode) ==
    flexbox_sized(t, node, flex_node_size(node, known_dimensions), available_space, run_mode)

-----------------------------------------------------------------------------
(* Dispatcher                                                              *)

\* Mutant of select_algorithm: display is looked at before the child count,
\* so that a childless display: None node goes to the hidden routine.
select_algorithm_display_first(node) ==
    IF style[node].display = "None" THEN "hidden"
    ELSE IF is_childless(node) THEN "leaf" ELSE "flexbox"

\* Lines 94-115: a childless node goes to the leaf algorithm whatever its
\* display; otherwise display chooses flexbox or the hidden routine.
select_algorithm(node) ==
    IF is_childless(node) THEN "leaf"
    ELSE IF style[node].display = "Flex" THEN "flexbox" ELSE "hidden"

run_algorithm(t, algo, node, known_dimensions, parent_size, available_space, run_mode, sizing_mode) ==
    IF algo = "leaf"
    THEN leaf_compute(t, node, known_dimensions, parent_size, available_space,
                      run_mode, sizing_mode)
    ELSE IF algo = "flexbox"
         THEN flexbox_compute(t, node, known_dimensions, parent_size, available_space,
                              run_mode)
         ELSE perform_hidden_layout(t, node)

\* Mutant of cache_result: the node's other slots are emptied by the write.
cache_result_alone(computed, q, cache_run_mode) ==
    LET cache_slot == compute_cache_slot(q.known_dimensions, q.available_space)
        entry == Entry(q.known_dimensions, q.available_space, cache_run_mode,
                       computed.size, q.pass)
    IN Result(Log([computed.t EXCEPT !.cache[q.node] =
                       [i \in 0..(CACHE_SIZE - 1) |-> IF i = cache_slot THEN entry
                                                       ELSE NoEntry]],
                  [q EXCEPT !.ev = "store", !.algo = select_algorithm(q.node),
                            !.run_mode = cache_run_mode, !.slot = cache_slot,
                            !.size = computed.size]),
              computed.size)

\* Mutant of cache_result: the result goes to the lowest empty slot of the
\* node, and to the slot compute_cache_slot names only when none is empty.
cache_result_first_empty(computed, q, cache_run_mode) ==
    LET empty == {i \in 0..(CACHE_SIZE - 1) : ~computed.t.cache[q.node][i].some}
        cache_slot == IF empty = {}
                      THEN compute_cache_slot(q.known_dimensions, q.available_space)
                      ELSE CHOOSE i \in empty : \A j \in empty : i <= j
    IN Result(Log([computed.t EXCEPT !.cache[q.node][cache_slot] =
                       Entry(q.known_dimensions, q.available_space, cache_run_mode,
                             computed.size, q.pass)],
                  [q EXCEPT !.ev = "store", !.algo = select_algorithm(q.node),
                            !.run_mode = cache_run_mode, !.slot = cache_slot,
                            !.size = computed.size]),
              computed.size)

\* Lines 117-127: the result computed goes to the slot compute_cache_slot
\* names, with cache_run_mode, and is returned.
cache_result(computed, q, cache_run_mode) ==
    LET cache_slot == compute_cache_slot(q.known_dimensions, q.available_space)
    IN Result(Log([computed.t EXCEPT !.cache[q.node][cache_slot] =
                       Entry(q.known_dimensions, q.available_space, cache_run_mode,
                             computed.size, q.pass)],
                  [q EXCEPT !.ev = "store", !.algo = select_algorithm(q.node),
                            !.run_mode = cache_run_mode, !.slot = cache_slot,
                            !.size = computed.size]),
              computed.size)

\* Mutant of dispatch: a hit stamps the entry it used with the available
\* space of the query it answered.
dispatch_restamp(asked, cached, q, cache_run_mode) ==
    IF cached.some
    THEN Result(Log([asked EXCEPT !.cache[q.node][cached.idx].available_space =
                         q.available_space],
                    [q EXCEPT !.ev = "hit", !.slot = cached.idx,
                              !.size = cached.size, !.pass = cached.pass]),
                cached.size)
    ELSE cache_result(run_algorithm(Log(asked, [q EXCEPT !.ev = "algo",
                                                         !.algo = select_algorithm(q.node)]),
                                    select_algorithm(q.node), q.node, q.known_dimensions,
                                    q.parent_size, q.available_space, q.run_mode,
                                    q.sizing_mode),
                      q, cache_run_mode)

\* Lines 65-128 once the cache has answered: a hit returns the cached size,
\* a miss runs one algorithm and caches its result. q is the "query" event of
\* this call, asked the tree with q logged.
dispatch(asked, cached, q, cache_run_mode) ==
    IF cached.some
    THEN Result(Log(asked, [q EXCEPT !.ev = "hit", !.slot = cached.idx,
                                     !.size = cached.size, !.pass = cached.pass]),
                cached.size)
    ELSE CHOOSE r \in
             {cache_result(computed, q, cache_run_mode) :
                  computed \in {run_algorithm(Log(asked, [q EXCEPT !.ev = "algo",
                                                  !.algo = select_algorithm(q.node)]),
                                              select_algorithm(q.node), q.node,
                                              q.known_dimensions, q.parent_size,
                                              q.available_space, q.run_mode,
                                              q.sizing_mode)}} : TRUE

\* Lines 63-66: the cache is asked with cache_run_mode.
lookup(asked, q, cache_run_mode) ==
    dispatch(asked,
             compute_from_cache(asked, q.node, q.known_dimensions, q.available_space,
                                cache_run_mode, q.sizing_mode),
             q, cache_run_mode)

\* Mutant of enter: the cache is asked and written with the run mode of the
\* query, on a childless node too.
enter_query_mode(t, q) == lookup(Log(t, q), q, q.run_mode)

\* The call as a "query" event entered in the history of t.
enter(t, q) ==
    lookup(Log(t, q), q, IF is_childless(q.node) THEN "PerformLayout" ELSE q.run_mode)

compute_node_layout(t, node, known_dimensions, parent_size, available_space, run_mode, sizing_mode) ==
    enter(t, Event("query", node, "", known_dimensions, available_space, parent_size,
                   run_mode, sizing_mode, 0, SizeZERO, t.pass))

-----------------------------------------------------------------------------
(* Rounding pass                                                           *)

RECURSIVE round_layout(_, _, _, _)
RECURSIVE round_children_loop(_, _, _, _, _)
RECURSIVE round_layout_absolute(_, _, _, _)
RECURSIVE round_children_absolute(_, _, _, _, _)
RECURSIVE round_layout_truncate(_, _, _, _)
RECURSIVE round_children_truncate(_, _, _, _, _)
RECURSIVE round_layout_near_edge(_, _, _, _)
RECURSIVE round_children_near_edge(_, _, _, _, _)

\* v cut down to whole pixels.
truncate(v) == (v \div Scale) * Scale

round_children_truncate(t, root, x, abs_x, abs_y) ==
    IF x >= child_count(root) THEN t
    ELSE round_children_truncate(round_layout_truncate(t, child(root, x), abs_x, abs_y),
                                 root, x + 1, abs_x, abs_y)

\* Mutant of round_layout: sizes are cut down to whole pixels, not rounded.
round_layout_truncate(t, root, abs_x, abs_y) ==
    LET l == t.layout[root]
        rounded == Layout(l.order,
                          Size(truncate(l.size.width), truncate(l.size.height)),
                          Point(round(l.location.x), round(l.location.y)))
    IN Return(round_children_truncate(SetLayout(Enter(t, "round_layout", root),
                                                root, rounded),
                                      root, 0, abs_x + l.location.x, abs_y + l.location.y),
              "round_layout", root)

round_children_near_edge(t, root, x, abs_x, abs_y) ==
    IF x >= child_count(root) THEN t
    ELSE round_children_near_edge(round_layout_near_edge(t, child(root, x), abs_x, abs_y),
                                  root, x + 1, abs_x, abs_y)

\* Mutant of round_layout: the rounded absolute origin is subtracted from the
\* rounded size.
round_layout_near_edge(t, root, abs_x, abs_y) ==
    LET l == t.layout[root]
        new_abs_x == abs_x + l.location.x
        new_abs_y == abs_y + l.location.y
        rounded == Layout(l.order,
                          Size(round(l.size.width) - round(new_abs_x),
                               round(l.size.height) - round(new_abs_y)),
                          Point(round(l.location.x), round(l.location.y)))
    IN Return(round_children_near_edge(SetLayout(Enter(t, "round_layout", root), root, rounded),
                                          root, 0, new_abs_x, new_abs_y),
              "round_layout", root)

round_children_absolute(t, root, x, abs_x, abs_y) ==
    IF x >= child_count(root) THEN t
    ELSE round_children_absolute(round_layout_absolute(t, child(root, x), abs_x, abs_y),
                                 root, x + 1, abs_x, abs_y)

\* Mutant of round_layout: the stored location is the rounded absolute
\* position instead of the rounded position relative to the parent.
round_layout_absolute(t, root, abs_x, abs_y) ==
    LET l == t.layout[root]
        new_abs_x == abs_x + l.location.x
        new_abs_y == abs_y + l.location.y
        rounded == Layout(l.order,
                          Size(round(l.size.width), round(l.size.height)),
                          Point(round(new_abs_x), round(new_abs_y)))
    IN Return(round_children_absolute(SetLayout(Enter(t, "round_layout", root), root, rounded),
                                         root, 0, new_abs_x, new_abs_y),
              "round_layout", root)

\* Mutant of round_layout: the record of root is rounded and the walk stops
\* there.
round_layout_root_only(t, root, abs_x, abs_y) ==
    LET l == t.layout[root]
        rounded == Layout(l.order,
                          Size(round(l.size.width), round(l.size.height)),
                          Point(round(l.location.x), round(l.location.y)))
    IN Return(SetLayout(Enter(t, "round_layout", root), root, rounded),
              "round_layout", root)

\* Mutant of round_children_loop: the children are visited last to first.
RECURSIVE round_children_reversed(_, _, _, _, _)
round_children_reversed(t, root, x, abs_x, abs_y) ==
    IF x >= child_count(root) THEN t
    ELSE round_children_reversed(
             round_layout(t, child(root, child_count(root) - 1 - x), abs_x, abs_y),
             root, x + 1, abs_x, abs_y)

\* The loop `for x in 0..tree.child_count(root)` of round_layout.
round_children_loop(t, root, x, abs_x, abs_y) ==
    IF x >= child_count(root) THEN t
    ELSE round_children_loop(round_layout(t, child(root, x), abs_x, abs_y),
                             root, x + 1, abs_x, abs_y)

round_layout(t, root, abs_x, abs_y) ==
    LET l == t.layout[root]
        new_abs_x == abs_x + l.location.x
        new_abs_y == abs_y + l.location.y
        rounded == Layout(l.order,
                          Size(round(l.size.width), round(l.size.height)),
                          Point(round(l.location.x), round(l.location.y)))
    IN Return(round_children_loop(SetLayout(Enter(t, "round_layout", root), root, rounded),
                                     root, 0, new_abs_x, new_abs_y),
              "round_layout", root)

-----------------------------------------------------------------------------
(* Public entry                                                            *)

\* Lines 39-43: written is the tree with the root record in place; pre keeps
\* the layout of the tree as round_layout receives it.
round_written(written, root, size) ==
    [t |-> round_layout(written, root, 0, 0), size |-> size, pre |-> written.layout]

\* Lines 39-40: r is what the root query returned.
write_root(r, root) ==
    round_written(SetLayout(r.t, root, Layout(0, r.size, PointZERO)), root, r.size)

\* Mutant of compute_layout: the root record is written after rounding, so
\* the root keeps the unrounded size.
write_root_after_rounding(r, root) ==
    [t |-> SetLayout(round_layout(r.t, root, 0, 0), root, Layout(0, r.size, PointZERO)),
     size |-> r.size,
     pre |-> [r.t.layout EXCEPT ![root] = Layout(0, r.size, PointZERO)]]

compute_layout_round_first(t, root, available_space) ==
    write_root_after_rounding(
        compute_node_layout(t, root, SizeNONE, into_options(available_space),
                            available_space, "PerformLayout", "InherentSize"),
        root)

\* Mutant of compute_layout: the caches of the tree are emptied when a pass
\* starts, so that no entry outlives the pass that wrote it.
compute_layout_per_pass_cache(t, root, available_space) ==
    write_root(compute_node_layout([t EXCEPT !.cache = [n \in Nodes |-> EmptyCache]],
                                   root, SizeNONE, into_options(available_space),
                                   available_space, "PerformLayout", "InherentSize"),
               root)

compute_layout(t, root, available_space) ==
    CHOOSE done \in
        {write_root(r, root) :
             r \in {compute_node_layout(t, root, SizeNONE, into_options(available_space),
                                        available_space, "PerformLayout",
                                        "InherentSize")}} : TRUE

-----------------------------------------------------------------------------
(* Trees, styles and inputs the model draws from                           *)

\* Child lists: three flush siblings; a container as second child; a chain
\* beside a detached leaf.
Shapes ==
    { [n \in Nodes |-> IF n = 1 THEN <<2, 3, 4>> ELSE <<>>],
      [n \in Nodes |-> IF n = 1 THEN <<2, 3>> ELSE IF n = 3 THEN <<4>> ELSE <<>>],
      [n \in Nodes |-> IF n = 1 THEN <<2>> ELSE IF n = 2 THEN <<3>> ELSE <<>>] }

Style(d, sz, lo, hi) == [display |-> d, size |-> sz, min_size |-> lo, max_size |-> hi]

\* Style sizes in units of 1/Scale pixel.
Styles ==
    { Style("Flex", SizeNONE, SizeNONE, SizeNONE),
      Style("Flex", Size(Some(7), Some(2)), SizeNONE, SizeNONE),
      Style("None", Size(Some(7), Some(2)), SizeNONE, SizeNONE) }

AvailableSpaces ==
    { Size(MaxContent, MaxContent), Size(MinContent, MinContent),
      Size(Definite(12), Definite(12)) }

NoCall ==
    [op |-> "none", node |-> StaleNode, available_space |-> SizeMAX_CONTENT,
     result |-> "none", size |-> SizeZERO, trace |-> <<>>,
     pre |-> [n \in Nodes |-> LayoutNew], before |-> [n \in Nodes |-> LayoutNew],
     cache_before |-> [n \in Nodes |-> EmptyCache], repeat |-> FALSE, walk |-> <<>>]

Init ==
    /\ children \in Shapes
    /\ style \in [Nodes -> Styles]
    /\ measure = [n \in Nodes |-> NoMeasure]
    /\ layout = [n \in Nodes |-> LayoutNew]
    /\ cache = [n \in Nodes |-> EmptyCache]
    /\ steps = 0
    /\ last = NoCall

-----------------------------------------------------------------------------
(* Actions                                                                 *)

\* The tree and the record of the call once compute_layout has returned r.
Returned(r, root, available_space) ==
    /\ layout' = r.t.layout
    /\ cache' = r.t.cache
    /\ last' = [op |-> "compute_layout", node |-> root,
                available_space |-> available_space, result |-> "Ok",
                size |-> r.size, trace |-> r.t.trace, pre |-> r.pre,
                before |-> layout, cache_before |-> cache, walk |-> r.t.walk,
                repeat |-> /\ last.op = "compute_layout"
                           /\ last.result = "Ok"
                           /\ last.node = root
                           /\ last.available_space = available_space]

\* compute_layout(tree, root, available_space) on a root the tree knows.
ComputeLayout(root, available_space) ==
    /\ steps < MaxSteps
    /\ Returned(compute_layout(Tree(layout, cache, <<>>, steps + 1), root, available_space),
                root, available_space)
    /\ steps' = steps + 1
    /\ UNCHANGED <<children, style, measure>>

\* compute_layout on a handle the accessor rejects: the first accessor call
\* (is_childless in compute_node_layout) panics before anything is written;
\* the function has no path that returns Err.
ComputeLayoutStale(available_space) ==
    /\ steps < MaxSteps
    /\ last' = [NoCall EXCEPT !.op = "compute_layout", !.node = StaleNode,
                              !.available_space = available_space, !.result = "Panic",
                              !.pre = layout, !.before = layout, !.cache_before = cache]
    /\ steps' = steps + 1
    /\ UNCHANGED <<children, style, measure, layout, cache>>

\* perform_hidden_layout(tree, node) called directly, as the unit test does.
PerformHiddenLayout(node) ==
    /\ steps < MaxSteps
    /\ LET r == perform_hidden_layout(Tree(layout, cache, <<>>, steps + 1), node)
       IN /\ layout' = r.t.layout
          /\ cache' = r.t.cache
          /\ last' = [NoCall EXCEPT !.op = "perform_hidden_layout", !.node = node,
                                    !.result = "Ok", !.size = r.size,
                                    !.pre = r.t.layout, !.before = layout,
                                    !.cache_before = cache, !.walk = r.t.walk]
    /\ steps' = steps + 1
    /\ UNCHANGED <<children, style, measure>>

Next ==
    \E root \in CallRoots : \E available_space \in AvailableSpaces :
        ComputeLayout(root, available_space)

Spec == Init /\ [][Next]_vars

\* Passes over the tree mixed with calls on a stale handle.
NextStale ==
    \/ Next
    \/ \E available_space \in AvailableSpaces : ComputeLayoutStale(available_space)

SpecStale == Init /\ [][NextStale]_vars

\* Layout records left behind by earlier passes under other styles.
PriorLayouts ==
    { LayoutNew,
      Layout(1, Size(10, 5), Point(5, 0)),
      Layout(2, Size(7, 2), Point(2, 3)) }

InitHidden ==
    /\ children \in Shapes
    /\ style \in [Nodes -> {Style("Flex", Size(Some(7), Some(2)), SizeNONE, SizeNONE),
                            Style("None", Size(Some(7), Some(2)), SizeNONE, SizeNONE)}]
    /\ measure = [n \in Nodes |-> NoMeasure]
    /\ layout \in [Nodes -> PriorLayouts]
    /\ cache = [n \in Nodes |-> EmptyCache]
    /\ steps = 0
    /\ last = NoCall

NextHidden == \E node \in Nodes : PerformHiddenLayout(node)

SpecHidden == InitHidden /\ [][NextHidden]_vars

-----------------------------------------------------------------------------
(* Sizing queries made on a node one after the other                       *)

\* Lengths the queries are made of: the width of the longest piece of the
\* text, the height of two lines, and a width between the narrowest and the
\* widest the text can be.
KnownWidth == 2 * H_WIDTH * Scale
KnownHeight == 2 * H_HEIGHT * Scale
Between == 3 * H_WIDTH * Scale

Query(kd, av) == [known_dimensions |-> kd, available_space |-> av]

\* One query for every row of the slot table, and for each row the
\* constraints the cache tells apart; the last query with neither dimension
\* known has a Definite height no shorter than the text laid out on one line.
Queries ==
    {Query(SizeNONE, av) :
         av \in {SizeMAX_CONTENT, Size(MinContent, MinContent), Size(MaxContent, MinContent),
                  Size(Definite(Between), Definite(Between)),
                  Size(MaxContent, Definite(Between))}}
    \cup {Query(Size(Some(KnownWidth), None), av) :
              av \in {SizeMAX_CONTENT, Size(MaxContent, MinContent),
                       Size(Definite(Between), Definite(Between))}}
    \cup {Query(Size(None, Some(KnownHeight)), av) :
              av \in {SizeMAX_CONTENT, Size(MinContent, MinContent)}}
    \cup {Query(Size(Some(KnownWidth), Some(KnownHeight)), SizeMAX_CONTENT)}

\* The (run_mode, sizing_mode) pairs compute_layout and the algorithms ask with.
Modes ==
    { <<"PerformLayout", "InherentSize">>, <<"PerformLayout", "ContentSize">>,
      <<"ComputeSize", "ContentSize">> }

\* The container and the text leaf of the chain 1 -> 2 -> 3.
QueryNodes == {2, 3}

NoQuery ==
    [node |-> StaleNode, known_dimensions |-> SizeNONE, available_space |-> SizeMAX_CONTENT,
     run_mode |-> "PerformLayout", sizing_mode |-> "InherentSize"]

\* The tree and the record of the call once compute_node_layout has returned r.
Queried(r, q) ==
    /\ layout' = r.t.layout
    /\ cache' = r.t.cache
    /\ last' = [op |-> "compute_node_layout", node |-> q.node,
                available_space |-> q.available_space, result |-> "Ok",
                size |-> r.size, trace |-> r.t.trace, pre |-> r.t.layout,
                before |-> layout, cache_before |-> cache, repeat |-> FALSE,
                walk |-> r.t.walk, query |-> q,
                prev |-> IF last.op = "compute_node_layout" THEN last.query ELSE NoQuery]

\* compute_node_layout(tree, node, ...) as an algorithm calls it on a node.
ComputeNodeLayout(node, known_dimensions, available_space, run_mode, sizing_mode) ==
    /\ steps < MaxQueries
    /\ Queried(compute_node_layout(Tree(layout, cache, <<>>, steps + 1), node,
                                     known_dimensions, SizeNONE, available_space,
                                     run_mode, sizing_mode),
                 [node |-> node, known_dimensions |-> known_dimensions,
                  available_space |-> available_space, run_mode |-> run_mode,
                  sizing_mode |-> sizing_mode])
    /\ steps' = steps + 1
    /\ UNCHANGED <<children, style, measure>>

\* The tree as a pass of compute_layout over the chain leaves it.
AfterPass(t) ==
    /\ layout = t.layout
    /\ cache = t.cache

\* The chain 1 -> 2 -> 3 with a text in the leaf, before any pass or after a
\* pass from the root under MAX_CONTENT.
InitQuery ==
    /\ children = [n \in Nodes |-> IF n = 1 THEN <<2>> ELSE IF n = 2 THEN <<3>> ELSE <<>>]
    /\ style = [n \in Nodes |-> Style("Flex", SizeNONE, SizeNONE, SizeNONE)]
    /\ measure \in {[n \in Nodes |-> IF n = 3 THEN Text(<<2, 2>>, w) ELSE NoMeasure] :
                       w \in {"Horizontal", "Vertical"}}
    /\ \/ AfterPass(Tree([n \in Nodes |-> LayoutNew], [n \in Nodes |-> EmptyCache],
                          <<>>, 0))
       \/ AfterPass(compute_layout(Tree([n \in Nodes |-> LayoutNew],
                                        [n \in Nodes |-> EmptyCache], <<>>, 0),
                                   1, SizeMAX_CONTENT).t)
    /\ steps = 0
    /\ last = NoCall

NextQuery ==
    \E node \in QueryNodes : \E q \in Queries : \E mode \in Modes :
        ComputeNodeLayout(node, q.known_dimensions, q.available_space, mode[1], mode[2])

SpecQuery == InitQuery /\ [][NextQuery]_vars

\* Queries on the root of the chain, as compute_layout makes them.
NextRootQuery ==
    \E q \in Queries : \E mode \in Modes :
        ComputeNodeLayout(1, q.known_dimensions, q.available_space, mode[1], mode[2])

SpecRootQuery == InitQuery /\ [][NextRootQuery]_vars

\* Styles of the min_width_overrides_max_width fixture: a minimum width
\* above the maximum width, on visible and on hidden nodes.
StylesMinMax ==
    { Style("Flex", SizeNONE, SizeNONE, SizeNONE),
      Style("Flex", SizeNONE, Size(Some(8), None), Size(Some(2), None)),
      Style("None", SizeNONE, Size(Some(8), Some(2)), SizeNONE) }

InitMinMax ==
    /\ children \in Shapes
    /\ style \in [Nodes -> StylesMinMax]
    /\ measure = [n \in Nodes |-> NoMeasure]
    /\ layout = [n \in Nodes |-> LayoutNew]
    /\ cache = [n \in Nodes |-> EmptyCache]
    /\ steps = 0
    /\ last = NoCall

SpecMinMax == InitMinMax /\ [][Next]_vars

-----------------------------------------------------------------------------
(* Properties                                                              *)

\* The last call was a compute_layout that returned Ok.
LaidOut == last.op = "compute_layout" /\ last.result = "Ok"

SiblingPairs(p) ==
    {<<children[p][i], children[p][j]>> : i, j \in 1..Len(children[p])} \ {<<n, n>> : n \in Nodes}

RECURSIVE AbsoluteX(_, _)
\* Sum of the unrounded relative x locations of n and its ancestors up to top.
AbsoluteX(n, top) ==
    last.pre[n].location.x + (IF n = top THEN 0 ELSE AbsoluteX(ParentOf(n), top))

RECURSIVE AbsoluteY(_, _)
AbsoluteY(n, top) ==
    last.pre[n].location.y + (IF n = top THEN 0 ELSE AbsoluteY(ParentOf(n), top))

\* C1: after compute_layout, siblings that were flush before rounding
\* (a.location + a.size = b.location on an axis) are flush after rounding.
C1_FlushSiblingsStayFlush ==
    LaidOut =>
        \A p \in Subtree(last.node) : \A ab \in SiblingPairs(p) :
            LET a == ab[1]
                b == ab[2]
            IN /\ (last.pre[a].location.x + last.pre[a].size.width = last.pre[b].location.x)
                      => (layout[a].location.x + layout[a].size.width = layout[b].location.x)
               /\ (last.pre[a].location.y + last.pre[a].size.height = last.pre[b].location.y)
                      => (layout[a].location.y + layout[a].size.height = layout[b].location.y)

\* C2: for every node the rounding pass visits, the stored size is
\* round(absolute + size) - round(absolute) on each axis, absolute being the
\* sum of the unrounded locations from the root down to the node, and the
\* stored location is round(location).
C2_SizeIsFarEdgeMinusOrigin ==
    LaidOut =>
        \A n \in Subtree(last.node) :
            LET abs_x == AbsoluteX(n, last.node)
                abs_y == AbsoluteY(n, last.node)
                pre == last.pre[n]
            IN /\ layout[n].size.width = round(abs_x + pre.size.width) - round(abs_x)
               /\ layout[n].size.height = round(abs_y + pre.size.height) - round(abs_y)
               /\ layout[n].location = Point(round(pre.location.x), round(pre.location.y))

C4_HiddenSubtreeZeroed ==
    LaidOut =>
        \A h \in Subtree(last.node) :
            style[h].display = "None" =>
                \A n \in Subtree(h) :
                    layout[n].size = SizeZERO /\ layout[n].location = PointZERO

\* C5: a second compute_layout in a row with the same root and available
\* space leaves every Layout record as the first call left it.
C5_Idempotent ==
    (LaidOut /\ last.repeat) => layout = last.before

\* C5 witness: the repeated call was answered from the root's cache with a
\* fractional size, and rounding ran again over a tree with fractional
\* unrounded positions behind it.
C5_Witness ==
    /\ LaidOut /\ last.repeat
    /\ \E i \in 1..Len(last.trace) : last.trace[i].ev = "hit"
    /\ round(last.size.width) # last.size.width
    /\ \E n \in Descendants(last.node) :
           /\ layout[n].location.x # 0
           /\ Descendants(n) # {}

\* Events of the last call that are cache hits.
Hits == {i \in 1..Len(last.trace) : last.trace[i].ev = "hit"}

Probed ==
    \E s \in 0..(CACHE_SIZE - 1) :
        /\ last.cache_before[last.node][s].some
        /\ last.cache_before[last.node][s].run_mode = "ComputeSize"

\* The root query of the last call was answered from the root's cache: the
\* root got a hit, no other node was queried and no algorithm ran.
Answered ==
    /\ \E i \in Hits : last.trace[i].node = last.node
    /\ \A i \in 1..Len(last.trace) :
           last.trace[i].node = last.node /\ last.trace[i].ev \in {"query", "hit"}

C7_SlotZeroEveryNonLeaf ==
    LaidOut =>
        \A n \in Subtree(last.node) : ~is_childless(n) => cache[n][0].some

\* No display: None node on the path from top down to n, both included.
RECURSIVE InFlow(_, _)
InFlow(n, top) ==
    /\ style[n].display # "None"
    /\ (n # top => InFlow(ParentOf(n), top))

\* Node n came to the last call with the entry of a call it was the root of:
\* a PerformLayout entry in slot 3 or 4.
WasRoot(n) ==
    \E s \in {3, 4} :
        /\ last.cache_before[n][s].some
        /\ last.cache_before[n][s].run_mode = "PerformLayout"

\* C7 as amended: after compute_layout the root, queried with known_dimensions
\* (None, None), has its entry in slot 3 (available width MaxContent or
\* Definite) or slot 4 (MinContent), and the call leaves the root's slot 0 as
\* it was (empty when the root is the root of a tree); slot 0 is populated for
\* every other non-leaf node with no display: None node on its path from the
\* root, unless that node was the root of an earlier call.
C7_RootEntryInSlotThreeOrFour ==
    LaidOut =>
        LET slot == IF last.available_space.width = MinContent THEN 4 ELSE 3
        IN /\ cache[last.node][slot].some
           /\ cache[last.node][slot].known_dimensions = SizeNONE
           /\ cache[last.node][slot].available_space = last.available_space
           /\ cache[last.node][0] = last.cache_before[last.node][0]
           /\ last.node \in Roots => ~cache[last.node][0].some
           /\ \A n \in Descendants(last.node) :
                  (~is_childless(n) /\ InFlow(n, last.node)) =>
                      cache[n][0].some \/ WasRoot(n)

\* C7 witness: a pass over a flex root holding a flex container, under
\* MinContent, after an earlier pass under another available space.
C7_Witness ==
    /\ LaidOut /\ last.node \in Roots
    /\ last.available_space.width = MinContent
    /\ cache[last.node][3].some /\ cache[last.node][4].some
    /\ \E n \in Descendants(last.node) : ~is_childless(n) /\ InFlow(n, last.node)

\* C8: compute_layout returns InvalidInputNode when the accessor rejects the
\* root handle, and leaves layout records and caches unchanged.
C8_StaleRootIsAnError ==
    (last.op = "compute_layout" /\ last.node \notin Nodes) =>
        /\ last.result = "InvalidInputNode"
        /\ layout = last.before
        /\ cache = last.cache_before

\* C9: a cache entry is returned as a hit only within the pass that wrote it.
C9_HitsOnlyWithinPass ==
    LaidOut => \A i \in Hits : last.trace[i].pass = steps

\* C9 as amended: cache entries outlive the pass that wrote them; a repeated
\* compute_layout call with unchanged inputs consumes an entry written by an
\* earlier call, and on the root of a tree it is the root query that is
\* answered from the entry the earlier call wrote.
C9_RepeatConsumesEarlierEntry ==
    /\ LaidOut => \A i \in Hits : last.trace[i].pass \in 1..steps
    /\ (LaidOut /\ last.repeat) =>
           /\ \E i \in Hits : last.trace[i].pass < steps
           /\ last.node \in Roots =>
                  \E i \in Hits : /\ last.trace[i].node = last.node
                                  /\ last.trace[i].pass < steps
                                  /\ last.trace[i].size = last.size

\* C9 witness: the third call consumes the entry the first call wrote, with a
\* call under another available space in between.
C9_Witness ==
    /\ LaidOut /\ ~last.repeat /\ steps = 3
    /\ \E i \in Hits : last.trace[i].node = last.node /\ last.trace[i].pass = 1
    /\ ~is_childless(last.node) /\ last.node \in Roots

\* C10: compute_layout queries the root with known_dimensions (None, None),
\* parent_size = available_space.into_options(), PerformLayout and
\* InherentSize, writes the root record with order 0, location (0,0) and the
\* returned size, and rounds afterwards: on return the root has order 0,
\* location (0,0) and the rounded returned size.
C10_RootQueryAndRecord ==
    LaidOut =>
        LET q == last.trace[1]
            answer == last.trace[Len(last.trace)]
        IN /\ q.ev = "query" /\ q.node = last.node
           /\ q.known_dimensions = SizeNONE
           /\ q.parent_size = Size(IF last.available_space.width.kind = "Definite"
                                   THEN Some(last.available_space.width.val) ELSE None,
                                   IF last.available_space.height.kind = "Definite"
                                   THEN Some(last.available_space.height.val) ELSE None)
           /\ q.available_space = last.available_space
           /\ q.run_mode = "PerformLayout" /\ q.sizing_mode = "InherentSize"
           /\ answer.node = last.node /\ answer.ev \in {"hit", "store"}
           /\ last.pre[last.node] = Layout(0, answer.size, PointZERO)
           /\ layout[last.node] =
                  Layout(0, Size(round(answer.size.width), round(answer.size.height)),
                         PointZERO)

\* C10 witness: the root query returned a fractional size under a definite
\* available space.
C10_Witness ==
    /\ LaidOut
    /\ last.available_space.width.kind = "Definite"
    /\ round(last.size.width) # last.size.width
    /\ round(last.size.height) # last.size.height
    /\ ~is_childless(last.node)

FreshPass == \A i \in Hits : last.trace[i].pass = steps

C12_SizesNonNegative ==
    LaidOut =>
        \A n \in Nodes : layout[n].size.width >= 0 /\ layout[n].size.height >= 0

\* C12 witness: a pass over a tree with a hidden node, answered in part from
\* the cache, that left a node away from the origin with a height that rounds
\* to zero.
C12_Witness ==
    /\ LaidOut
    /\ Hits # {}
    /\ \E h \in Descendants(last.node) : style[h].display = "None"
    /\ \E n \in Subtree(last.node) :
           /\ layout[n].location.x > 0
           /\ last.pre[n].size.height > 0 /\ layout[n].size.height = 0

-----------------------------------------------------------------------------
(* Properties of single queries                                            *)

\* The last call was a compute_node_layout query made on a node.
Asked == last.op = "compute_node_layout"

\* The run mode the last query asked and wrote the cache with.
LastCacheRunMode ==
    IF is_childless(last.node) THEN "PerformLayout" ELSE last.query.run_mode

\* The last query was answered from the cache / by an algorithm.
LastHit == Asked /\ last.trace[2].ev = "hit"
LastMiss == Asked /\ last.trace[2].ev = "algo"

\* The slot the table of the caching strategy gives a query.
SlotOfTable(known_dimensions, available_space) ==
    LET known == {a \in {"width", "height"} : known_dimensions[a].some}
    IN IF known = {"width", "height"} THEN 0
       ELSE IF known = {"width"}
            THEN (IF available_space.height.kind = "MinContent" THEN 2 ELSE 1)
            ELSE IF known = {"height"}
                 THEN (IF available_space.width.kind = "MinContent" THEN 2 ELSE 1)
                 ELSE (IF available_space.width.kind = "MinContent" THEN 4 ELSE 3)

\* C13: compute_cache_slot depends on (known_dimensions, available_space)
\* only, returns an index in 0..4 and follows the slot table: every entry of
\* every node, whatever run mode and sizing mode its query had, sits in the
\* slot the table gives its known_dimensions and available_space, and every
\* write of the last call went to that slot.
C13_SlotTable ==
    /\ \A n \in Nodes : \A s \in 0..(CACHE_SIZE - 1) :
           cache[n][s].some =>
               s = SlotOfTable(cache[n][s].known_dimensions, cache[n][s].available_space)
    /\ \A i \in 1..Len(last.trace) :
           last.trace[i].ev = "store" =>
               /\ last.trace[i].slot \in 0..4
               /\ last.trace[i].slot = SlotOfTable(last.trace[i].known_dimensions,
                                                   last.trace[i].available_space)

\* C13 witness: three slots of the text leaf are populated, by queries of
\* both run modes: slot 3 by an earlier pass, slot 2 by a query with the height
\* known under a MinContent width, then slot 4 by a query with nothing known.
C13_Witness ==
    /\ Asked /\ LastMiss /\ last.node = 3
    /\ cache[3][3].some
    /\ last.query.known_dimensions = SizeNONE
    /\ last.prev.known_dimensions = Size(None, Some(KnownHeight))
    /\ last.prev.available_space.width = MinContent
    /\ cache[3][4].pass = steps /\ cache[3][2].pass = steps - 1
    /\ last.query.run_mode # last.prev.run_mode

\* The populated entries of the queried node that satisfy the hit predicate
\* for the last query, each judged on its own.
Matching ==
    {s \in 0..(CACHE_SIZE - 1) :
        LET entry == last.cache_before[last.node][s]
        IN /\ entry.some
           /\ ~(entry.run_mode = "ComputeSize" /\ LastCacheRunMode = "PerformLayout")
           /\ EntryMatches(entry, last.query.known_dimensions,
                           last.query.available_space, last.query.sizing_mode)}

\* C14: compute_from_cache returns the cached size of a matching entry
\* whenever at least one populated entry of the node matches the hit
\* predicate, and None only when no entry matches.
C14_EntriesJudgedIndependently ==
    Asked =>
        /\ Matching # {} =>
               /\ LastHit
               /\ \E s \in Matching :
                      last.size = last.cache_before[last.node][s].cached_size
        /\ Matching = {} => LastMiss

\* The entry the last query was answered from.
HitEntry == last.cache_before[last.node][last.trace[2].slot]

\* C15: a PerformLayout query on a node with children is never answered from
\* an entry stored by a ComputeSize run: it hits a PerformLayout entry or an
\* algorithm runs, and on return the children's layout records have been
\* written.
C15_PerformLayoutNeverFromComputeSize ==
    (Asked /\ ~is_childless(last.node) /\ last.query.run_mode = "PerformLayout") =>
        /\ \/ LastHit /\ HitEntry.some /\ HitEntry.run_mode = "PerformLayout"
           \/ LastMiss /\ last.trace[2].algo = "flexbox"
        /\ \A i \in 1..child_count(last.node) :
               LET c == child(last.node, i - 1)
               IN /\ layout[c].order = i - 1
                  /\ layout[c].size.width > 0 /\ layout[c].size.height > 0

\* C15 witness: a PerformLayout query on the container, whose child has no
\* layout yet, that the ComputeSize entry of the query before it would answer
\* but for its run mode.
C15_Witness ==
    /\ Asked /\ last.node = 2 /\ last.query.run_mode = "PerformLayout"
    /\ LastMiss
    /\ \E s \in 0..(CACHE_SIZE - 1) :
           LET entry == last.cache_before[2][s]
           IN /\ entry.some /\ entry.run_mode = "ComputeSize"
              /\ EntryMatches(entry, last.query.known_dimensions,
                              last.query.available_space, last.query.sizing_mode)
    /\ last.before[3].size = SizeZERO

\* C16: on a cache hit compute_node_layout returns the cached size with no
\* side effects: no algorithm is invoked, no other node is queried, and no
\* Layout record and no cache slot of any node is modified.
C16_HitHasNoSideEffects ==
    LastHit =>
        /\ Len(last.trace) = 2
        /\ last.size = HitEntry.cached_size
        /\ layout = last.before
        /\ cache = last.cache_before

\* C16 witness: a query on the container answered from the entry the query
\* before it stored under another available space, with layout records and
\* cache entries in the tree to be left alone.
C16_Witness ==
    /\ LastHit /\ last.node = 2
    /\ HitEntry.available_space # last.query.available_space
    /\ last.prev.node = 2 /\ last.prev.run_mode = "PerformLayout"
    /\ last.before[3].size # SizeZERO
    /\ \E s \in 0..(CACHE_SIZE - 1) : last.cache_before[3][s].some

\* The store events of the last call on the queried node.
OwnStores == {i \in 1..Len(last.trace) :
                 last.trace[i].ev = "store" /\ last.trace[i].node = last.node}

\* C17: on a cache miss compute_node_layout stores exactly one entry
\* {known_dimensions, available_space, cache_run_mode, computed_size} in the
\* slot compute_cache_slot gives the query, after the algorithm has returned;
\* the node's other four slots are as they were, and the size returned is the
\* cached_size stored.
C17_MissStoresOneEntry ==
    LastMiss =>
        LET slot == compute_cache_slot(last.query.known_dimensions,
                                       last.query.available_space)
        IN /\ OwnStores = {Len(last.trace)}
           /\ last.trace[Len(last.trace)].slot = slot
           /\ cache[last.node][slot] =
                  Entry(last.query.known_dimensions, last.query.available_space,
                        LastCacheRunMode, last.size, steps)
           /\ \A s \in (0..(CACHE_SIZE - 1)) \ {slot} :
                  cache[last.node][s] = last.cache_before[last.node][s]

\* C17 witness: a miss on the container that ran flexbox, which stored
\* entries in the child's cache on the way, and replaced an entry of the
\* container beside other populated slots.
C17_Witness ==
    /\ LastMiss /\ last.node = 2
    /\ \E i \in 1..Len(last.trace) : last.trace[i].ev = "store" /\ last.trace[i].node = 3
    /\ \E s \in 0..(CACHE_SIZE - 1) :
           /\ last.cache_before[2][s].some
           /\ cache[2][s] # last.cache_before[2][s]
    /\ \E s \in 0..(CACHE_SIZE - 1) :
           last.cache_before[2][s].some /\ cache[2][s] = last.cache_before[2][s]

\* The entry the last query wrote over, if it stored over a populated slot.
Clobbered == last.cache_before[last.node][last.trace[Len(last.trace)].slot]

\* C18: cache writes do not clobber across query classes: a query with
\* neither dimension known never overwrites the entry of a query with both
\* dimensions known, and a query with MinContent available space on an
\* unknown axis never overwrites an entry stored by a query that had
\* MaxContent available space on that axis.
C18_NoClobberAcrossClasses ==
    (LastMiss /\ Clobbered.some) =>
        LET q == last.query
        IN /\ (~q.known_dimensions.width.some /\ ~q.known_dimensions.height.some) =>
                  ~(Clobbered.known_dimensions.width.some
                      /\ Clobbered.known_dimensions.height.some)
           /\ (~q.known_dimensions.width.some /\ q.available_space.width = MinContent) =>
                  Clobbered.available_space.width # MaxContent
           /\ (~q.known_dimensions.height.some /\ q.available_space.height = MinContent) =>
                  Clobbered.available_space.height # MaxContent

\* The size a computation of the last query that does not look at the cache
\* returns, for a childless node.
Fresh ==
    leaf_compute(Tree(last.before, last.cache_before, <<>>, steps), last.node,
                 last.query.known_dimensions, SizeNONE, last.query.available_space,
                 last.query.run_mode, last.query.sizing_mode).size

\* The last query matched the entry it was answered from through the
\* content-size clause on some axis: the axis is unknown, the available
\* spaces differ, and the query's is Definite and >= the cached size.
ByContentSizeClause ==
    \/ /\ ~last.query.known_dimensions.width.some
       /\ ~is_roughly_equal(HitEntry.available_space.width,
                            last.query.available_space.width)
    \/ /\ ~last.query.known_dimensions.height.some
       /\ ~is_roughly_equal(HitEntry.available_space.height,
                            last.query.available_space.height)

\* C19: for a childless node measured by the text measure function, a
\* ContentSize query answered from the cache through the content-size clause
\* returns the size a fresh computation of that query returns.
C19_ContentSizeClauseTransparent ==
    (LastHit /\ is_childless(last.node) /\ measure[last.node].some
        /\ last.query.sizing_mode = "ContentSize" /\ ByContentSizeClause) =>
        last.size = Fresh

\* Every cache entry of a childless node has run_mode PerformLayout.
LeafEntriesArePerformLayout ==
    \A n \in Nodes : \A s \in 0..(CACHE_SIZE - 1) :
        (is_childless(n) /\ cache[n][s].some) => cache[n][s].run_mode = "PerformLayout"

\* The entry a query on a node with children writes has the query's run mode.
ContainerEntriesKeepRunMode ==
    (LastMiss /\ ~is_childless(last.node)) =>
        cache[last.node][last.trace[Len(last.trace)].slot].run_mode = last.query.run_mode

\* The last query is a PerformLayout query on a leaf and the query before it
\* a ComputeSize query on that leaf with the same known_dimensions and
\* available_space.
LayoutAfterSizing ==
    /\ Asked /\ is_childless(last.node) /\ last.query.run_mode = "PerformLayout"
    /\ last.prev.node = last.node /\ last.prev.run_mode = "ComputeSize"
    /\ last.prev.known_dimensions = last.query.known_dimensions
    /\ last.prev.available_space = last.query.available_space

\* C20: every cache entry of a childless node has run_mode PerformLayout
\* whatever the run mode of the query that wrote it, so that a PerformLayout
\* query after a ComputeSize query with the same known_dimensions and
\* available_space on a leaf is a hit; the entry a query on a node with
\* children writes has the run mode of the query.
C20_LeafEntriesArePerformLayout ==
    /\ LeafEntriesArePerformLayout
    /\ LayoutAfterSizing => LastHit
    /\ ContainerEntriesKeepRunMode

\* C20 (amended): as C20, the PerformLayout query being a hit when it also
\* has the sizing_mode of the ComputeSize query before it.
C20_SameSizingModeHits ==
    /\ LeafEntriesArePerformLayout
    /\ (LayoutAfterSizing /\ last.query.sizing_mode = last.prev.sizing_mode) => LastHit
    /\ ContainerEntriesKeepRunMode

\* C20 witness: a PerformLayout query on the text leaf answered from the
\* entry the ComputeSize query before it stored.
C20_Witness ==
    /\ LastHit /\ last.node = 3 /\ LayoutAfterSizing
    /\ last.query.sizing_mode = last.prev.sizing_mode
    /\ HitEntry.pass = steps - 1
    /\ \E s \in 0..(CACHE_SIZE - 1) :
           cache[2][s].some /\ cache[2][s].run_mode = "ComputeSize"

-----------------------------------------------------------------------------
(* Properties of the dispatcher's history                                  *)

\* Positions of the events of kind ev in the history of the last call.
At(ev) == {i \in 1..Len(last.trace) : last.trace[i].ev = ev}

RECURSIVE CallStack(_, _)
CallStack(tr, i) ==
    IF i = 0 THEN <<>>
    ELSE IF tr[i].ev = "query" THEN Append(CallStack(tr, i - 1), tr[i].node)
    ELSE IF tr[i].ev = "algo" THEN CallStack(tr, i - 1)
    ELSE SubSeq(CallStack(tr, i - 1), 1, Len(CallStack(tr, i - 1)) - 1)

\* w from event i on is a walk in declared order: open holds, innermost
\* last, the nodes entered and not yet returned from, each with the index of
\* the child it visits next. A node is entered as the next child of the
\* innermost open node, and returned from once all its children were.
RECURSIVE InDeclaredOrder(_, _, _)
InDeclaredOrder(w, i, open) ==
    IF i > Len(w) THEN open = <<>>
    ELSE IF w[i].ev = "enter"
    THEN IF open = <<>>
         THEN InDeclaredOrder(w, i + 1, <<[node |-> w[i].node, next |-> 0]>>)
         ELSE LET top == open[Len(open)]
              IN /\ top.next < child_count(top.node)
                 /\ w[i].node = child(top.node, top.next)
                 /\ InDeclaredOrder(w, i + 1,
                                     Append([open EXCEPT ![Len(open)].next = top.next + 1],
                                            [node |-> w[i].node, next |-> 0]))
    ELSE /\ open # <<>>
         /\ open[Len(open)].node = w[i].node
         /\ open[Len(open)].next = child_count(w[i].node)
         /\ InDeclaredOrder(w, i + 1, SubSeq(open, 1, Len(open) - 1))

\* C22: a node's cache entry is written only after every call of
\* compute_node_layout made on its descendants during that call has
\* returned, and the hidden walk and the rounding walk visit the children
\* of each node in index order 0..child_count-1, a parent before its
\* children.
C22_PostOrderStoresAndOrderedWalks ==
    /\ \A i \in At("store") \cup At("hit") :
           /\ CallStack(last.trace, i - 1) # <<>>
           /\ CallStack(last.trace, i - 1)[Len(CallStack(last.trace, i - 1))] =
                  last.trace[i].node
    /\ CallStack(last.trace, Len(last.trace)) = <<>>
    /\ InDeclaredOrder(last.walk, 1, <<>>)

\* C22 witness: a pass in which a container's entry was stored after the
\* entries of its two children, the hidden walk went down from the second
\* child, and the rounding walk went over both children.
C22_Witness ==
    /\ last.op = "compute_layout"
    /\ child_count(last.node) = 2
    /\ \E i \in At("store") : \E j, k \in At("store") :
           /\ last.trace[i].node = last.node /\ j < k /\ k < i
           /\ last.trace[j].node = child(last.node, 0)
           /\ last.trace[k].node = child(last.node, 1)
    /\ \E i, j \in 1..Len(last.walk) :
           /\ i < j
           /\ last.walk[i] = [ev |-> "enter", fn |-> "perform_hidden_layout",
                               node |-> child(last.node, 1)]
           /\ last.walk[j].fn = "perform_hidden_layout_inner"
    /\ \E i, j \in 1..Len(last.walk) :
           /\ i < j
           /\ last.walk[i] = [ev |-> "return", fn |-> "round_layout",
                               node |-> child(last.node, 0)]
           /\ last.walk[j] = [ev |-> "enter", fn |-> "round_layout",
                               node |-> child(last.node, 1)]

\* Number of nodes on the longest path from node down to a leaf.
RECURSIVE TreeDepth(_)
TreeDepth(node) ==
    IF is_childless(node) THEN 1
    ELSE 1 + CHOOSE d \in 1..Cardinality(Nodes) :
                 /\ \E i \in 1..Len(children[node]) : TreeDepth(children[node][i]) = d
                 /\ \A i \in 1..Len(children[node]) : TreeDepth(children[node][i]) <= d

\* The calls of a walk still open after each event of w, innermost last:
\* element i is the stack after the first i events. acc holds the elements
\* before i.
RECURSIVE WalkStacks(_, _, _)
WalkStacks(w, i, acc) ==
    IF i > Len(w) THEN acc
    ELSE WalkStacks(w, i + 1,
                    Append(acc,
                           IF w[i].ev = "enter"
                           THEN Append(IF i = 1 THEN <<>> ELSE acc[i - 1], w[i].node)
                           ELSE SubSeq(acc[i - 1], 1, Len(acc[i - 1]) - 1)))

\* The same for the calls of compute_node_layout in the history tr.
RECURSIVE CallStacks(_, _, _)
CallStacks(tr, i, acc) ==
    IF i > Len(tr) THEN acc
    ELSE CallStacks(tr, i + 1,
                    Append(acc,
                           IF tr[i].ev = "query"
                           THEN Append(IF i = 1 THEN <<>> ELSE acc[i - 1], tr[i].node)
                           ELSE IF tr[i].ev = "algo" THEN acc[i - 1]
                           ELSE SubSeq(acc[i - 1], 1, Len(acc[i - 1]) - 1)))

\* open being the stacks of a walk, the position at which the outermost call
\* entered at position i returns.
ReturnOf(open, i) ==
    CHOOSE j \in i..Len(open) : open[j] = <<>> /\ \A k \in i..(j - 1) : open[k] # <<>>

\* Every call made from inside another one is on a child of the caller's
\* node, and no call is nested deeper than the tree under top is deep.
DescendsAlongChildLinks(stack, top) ==
    /\ Len(stack) <= TreeDepth(top)
    /\ stack[1] = top
    /\ \A d \in 2..Len(stack) : ParentOf(stack[d]) = stack[d - 1]

\* C23: compute_layout returns on every tree: the calls of
\* compute_node_layout, perform_hidden_layout and round_layout go from a
\* node to one of its children only, never nest deeper than the tree is
\* deep, every one of them returns, and a walk of round_layout or
\* perform_hidden_layout enters each node of its subtree exactly once.
C23_BoundedDescent ==
    last.op = "compute_layout" =>
        \A calls \in {CallStacks(last.trace, 1, <<>>)} :
        \A open \in {WalkStacks(last.walk, 1, <<>>)} :
            /\ last.result = "Ok"
            /\ calls[Len(calls)] = <<>>
            /\ open[Len(open)] = <<>>
            /\ \A i \in At("query") : DescendsAlongChildLinks(calls[i], last.node)
            /\ \A i \in 1..Len(open) :
                   last.walk[i].ev = "enter" =>
                       /\ DescendsAlongChildLinks(open[i], open[i][1])
                       /\ Len(open[i]) = 1 =>
                              \A n \in Nodes :
                                  Cardinality({k \in i..ReturnOf(open, i) :
                                                  /\ last.walk[k].ev = "enter"
                                                  /\ last.walk[k].node = n}) =
                                      BoolToInt(n \in Subtree(last.walk[i].node))
            /\ \E i \in 1..Len(open) :
                   /\ last.walk[i] = [ev |-> "enter", fn |-> "round_layout",
                                       node |-> last.node]
                   /\ ReturnOf(open, i) = Len(open)

\* C23 witness: a pass over a chain three nodes deep whose root is hidden:
\* the hidden walk and the rounding walk both reached the third level.
C23_Witness ==
    /\ last.op = "compute_layout" /\ TreeDepth(last.node) = 3
    /\ \E i, j \in 1..Len(last.walk) :
           /\ last.walk[i].fn = "perform_hidden_layout_inner"
           /\ Len(WalkStacks(last.walk, 1, <<>>)[i]) = 3
           /\ last.walk[j].fn = "round_layout"
           /\ Len(WalkStacks(last.walk, 1, <<>>)[j]) = 3

\* C24: every populated cache slot i of every node holds an entry whose
\* known_dimensions and available_space the slot table sends to slot i; slot
\* 0 only holds entries with both dimensions known, slots 3 and 4 only
\* entries with none known.
C24_SlotConsistency ==
    \A n \in Nodes : \A i \in 0..(CACHE_SIZE - 1) :
        cache[n][i].some =>
            LET e == cache[n][i]
                known == BoolToInt(e.known_dimensions.width.some)
                             + BoolToInt(e.known_dimensions.height.some)
            IN /\ SlotOfTable(e.known_dimensions, e.available_space) = i
               /\ i = 0 <=> known = 2
               /\ i \in {1, 2} <=> known = 1
               /\ i \in {3, 4} <=> known = 0

\* C24 witness: the container holds entries with both dimensions, with one
\* and with no dimension known, the last two written by queries.
C24_Witness ==
    /\ steps = MaxQueries
    /\ \E n \in QueryNodes :
           /\ ~is_childless(n)
           /\ cache[n][0].some
           /\ \E i \in {1, 2} : cache[n][i].some /\ cache[n][i].pass > 0
           /\ cache[n][4].some /\ cache[n][4].pass > 0

\* The entries the query before the last one stored on the node it asked.
StoredByPrevious ==
    {i \in 0..(CACHE_SIZE - 1) :
        /\ last.cache_before[last.prev.node][i].some
        /\ last.cache_before[last.prev.node][i].pass = steps - 1
        /\ last.cache_before[last.prev.node][i].known_dimensions = last.prev.known_dimensions
        /\ last.cache_before[last.prev.node][i].available_space = last.prev.available_space}

\* C25: when a call of compute_node_layout misses and stores its result, a
\* call that follows it at once on the same node with the same
\* known_dimensions, available_space, run_mode and sizing_mode is a hit that
\* returns the same size without running an algorithm.
C25_NoQueryComputedTwiceInARow ==
    (Asked /\ steps > 1 /\ last.prev = last.query /\ StoredByPrevious # {}) =>
        /\ LastHit
        /\ At("algo") = {}
        /\ \A i \in StoredByPrevious :
               last.size = last.cache_before[last.node][i].cached_size

\* C26: when a PerformLayout call on a node with children returns a size,
\* the Layout records of the children are those of the PerformLayout run
\* that computed that size: a hit never returns a size while the children
\* hold records written by a later PerformLayout run under other
\* known_dimensions or available_space.
C26_HitReturnsLatestPerformLayout ==
    (LastHit /\ ~is_childless(last.node) /\ last.query.run_mode = "PerformLayout") =>
        \A i \in 0..(CACHE_SIZE - 1) :
            LET e == cache[last.node][i]
            IN (/\ e.some /\ e.run_mode = "PerformLayout"
                /\ \/ e.known_dimensions # HitEntry.known_dimensions
                   \/ e.available_space # HitEntry.available_space) =>
                   e.pass <= HitEntry.pass

\* v is a whole number of pixels.
IsWhole(v) == v % Scale = 0

WholeLayout(l) ==
    /\ IsWhole(l.size.width) /\ IsWhole(l.size.height)
    /\ IsWhole(l.location.x) /\ IsWhole(l.location.y)

\* The nodes compute_node_layout was called on during the last call.
CalledOn == {last.trace[i].node : i \in At("query")}

\* C27: after compute_layout returns, every node reachable from the root
\* has whole-pixel location and size on both axes, the nodes under a node
\* answered from the cache and the nodes of hidden subtrees included.
C27_WholeTreeRounded ==
    (last.op = "compute_layout" /\ last.result = "Ok") =>
        \A n \in Subtree(last.node) : WholeLayout(layout[n])

\* C27 witness: a pass in which a container was answered from the cache
\* only, so that no call was made on its child, and got a record with
\* fractions of a pixel from its parent.
C27_Witness ==
    /\ last.op = "compute_layout"
    /\ \E n \in Descendants(last.node) :
           /\ ~is_childless(n)
           /\ \A i \in 1..Len(last.trace) :
                  last.trace[i].node = n => last.trace[i].ev \in {"query", "hit"}
           /\ n \in CalledOn
           /\ ~WholeLayout(last.pre[n])
           /\ \E d \in Descendants(n) : d \notin CalledOn /\ layout[d].size # SizeZERO

====
